---- MODULE Spec2Model ----
(***************************************************************************)
(* Model of src/src/analysis.py: the header parser (parse_columns), the    *)
(* rank aggregator (process_rankings), the chart step (create_plot) and    *)
(* the pipeline (main).                                                    *)
(*                                                                         *)
(* A column header is a sequence of tokens; " - " is the token D, so that  *)
(* " - Ranks - " is <<D, "Rank", "s", D>> and the rank-field marker        *)
(* " - Rank" is <<D, "Rank">>: the markers overlap in the model exactly    *)
(* where they overlap in the strings.  A cell of the table is <<>> when    *)
(* it is empty (pd.isna) and <<v>> when it holds the number v.  A Python   *)
(* dict is a sequence of entries in insertion order.  An average is the    *)
(* fraction sum/len in lowest terms.                                       *)
(***************************************************************************)
EXTENDS Integers, Sequences, FiniteSets, TLC

VARIABLES pc, columns, df, col_map, course_type, ci, idx, student_courses,
          course_rank_lists, results_df, printed, core_df, elective_df, files

vars == <<pc, columns, df, col_map, course_type, ci, idx, student_courses,
          course_rank_lists, results_df, printed, core_df, elective_df, files>>

(* ------------------------------ bounds -------------------------------- *)

\* columns of the table handed to process_rankings
NumCols == 3
\* respondent rows of the table
MaxRows == 2
\* largest in-category rank value a cell holds
MaxRankVal == 2
\* category segments composed into one generated header
MaxSegs == 2

(* ----------------------------- vocabulary ----------------------------- *)

D == " - "
CoreMarker == "MAcc CORE courses"
ElectiveMarker == "MAcc Elective courses"

rank_categories == <<"Most Beneficial", "Neutral", "Least Beneficial">>
all_categories == rank_categories \o <<"Did not take">>
\* a category label no branch of the code recognises
OtherCategory == "Somewhat Beneficial"

CourseTypes == {"CORE", "ELECTIVE"}
Courses == {<<"A">>, <<"B">>, <<"C">>}

Range(s) == {s[i] : i \in 1..Len(s)}

(* ------------------ string operations on token sequences -------------- *)

\* the 1-based places where pat occurs in col
Occurrences(col, pat) ==
    {i \in 1..(Len(col) - Len(pat) + 1) : SubSeq(col, i, i + Len(pat) - 1) = pat}

\* Python: pat in col
Contains(col, pat) == Occurrences(col, pat) # {}

\* Python: col.endswith(pat)
EndsWith(col, pat) ==
    /\ Len(col) >= Len(pat)
    /\ SubSeq(col, Len(col) - Len(pat) + 1, Len(col)) = pat

\* Python: col.find(pat), 0-based, -1 when absent
Find(col, pat) ==
    IF Occurrences(col, pat) = {} THEN -1
    ELSE (CHOOSE i \in Occurrences(col, pat) :
             \A j \in Occurrences(col, pat) : i <= j) - 1

\* Python: col.rfind(pat), 0-based, -1 when absent
RFind(col, pat) ==
    IF Occurrences(col, pat) = {} THEN -1
    ELSE (CHOOSE i \in Occurrences(col, pat) :
             \A j \in Occurrences(col, pat) : i >= j) - 1

\* Python: col[start:end] for 0 <= start, 0 <= end <= len(col); empty when start >= end
Slice(col, start, end) == SubSeq(col, start + 1, end)

(* ---------------------------- parse_columns --------------------------- *)

RanksMarker == <<D, "Rank", "s", D>>
suffix == <<D, "Rank">>
\* f" - Ranks - {cat} - "
CatPrefix(cat) == <<D, "Rank", "s", D, cat, D>>

\* Python's None for found_cat
NoCat == ""

\* lines 22-27: the course type of a header, "" when neither marker occurs
ColType(col) ==
    IF Contains(col, <<CoreMarker>>) THEN "CORE"
    ELSE IF Contains(col, <<ElectiveMarker>>) THEN "ELECTIVE"
    ELSE ""

\* lines 38-42: the first category, in list order, whose segment occurs
RECURSIVE FirstCat(_, _)
FirstCat(col, cats) ==
    IF cats = <<>> THEN NoCat
    ELSE IF Contains(col, CatPrefix(Head(cats))) THEN Head(cats)
    ELSE FirstCat(col, Tail(cats))

FoundCat(col) == FirstCat(col, all_categories)

\* lines 50-59
StartIdx(col) == Find(col, CatPrefix(FoundCat(col))) + Len(CatPrefix(FoundCat(col)))
EndIdx(col) == RFind(col, suffix)
CourseName(col) == Slice(col, StartIdx(col), EndIdx(col))

\* mutant of Outcome: the category is looked for before the trailing marker
OutcomeCategoryFirst(col) ==
    IF ColType(col) = "" THEN "no_type"
    ELSE IF ~Contains(col, RanksMarker) THEN "no_ranks"
    ELSE IF FoundCat(col) = NoCat THEN "no_category"
    ELSE IF ~EndsWith(col, suffix) THEN "no_suffix"
    ELSE IF StartIdx(col) = -1 \/ EndIdx(col) = -1 THEN "bad_index"
    ELSE "entry"

\* the branch one iteration of the loop at line 21 takes for header col
Outcome(col) ==
    IF ColType(col) = "" THEN "no_type"
    ELSE IF ~Contains(col, RanksMarker) THEN "no_ranks"
    ELSE IF ~EndsWith(col, suffix) THEN "no_suffix"
    ELSE IF FoundCat(col) = NoCat THEN "no_category"
    ELSE IF StartIdx(col) = -1 \/ EndIdx(col) = -1 THEN "bad_index"
    ELSE "entry"

\* lines 61-65: the entry of column c (a position in the header list)
Entry(c, col) ==
    [col |-> c, type |-> ColType(col), category |-> FoundCat(col),
     course |-> CourseName(col)]

\* line 45
Warning(c) == [msg |-> "Warning: Could not identify category in column", col |-> c]

\* a printed line that names no column
Line(msg) == [msg |-> msg, col |-> 0]

(* --------------------------- process_rankings ------------------------- *)

\* line 90: pd.isna(val)
IsNa(val) == val = <<>>

\* lines 104-110
CatPriority(cat) ==
    IF cat = "Most Beneficial" THEN 1
    ELSE IF cat = "Neutral" THEN 2
    ELSE IF cat = "Least Beneficial" THEN 3
    ELSE 0

\* line 74: the entries of the requested type, in the dict's order
TypeCols(cm, ct) == SelectSeq(cm, LAMBDA meta : meta.type = ct)

\* lines 86-117: the ratings of one row, in column order
RECURSIVE Collect(_, _)
Collect(row, tcols) ==
    IF tcols = <<>> THEN <<>>
    ELSE LET meta == Head(tcols)
             val == row[meta.col]
             rest == Collect(row, Tail(tcols))
         IN  IF IsNa(val) THEN rest
             ELSE IF meta.category = "Did not take" THEN rest
             ELSE <<[course |-> meta.course,
                     cat_priority |-> CatPriority(meta.category),
                     rank_val |-> val[1]]>> \o rest

\* mutant of KeyLess: the key (rank_val, cat_priority)
KeyLessRankFirst(x, y) ==
    \/ x.rank_val < y.rank_val
    \/ x.rank_val = y.rank_val /\ x.cat_priority < y.cat_priority

\* line 121: the key (cat_priority, rank_val), compared as Python compares tuples
KeyLess(x, y) ==
    \/ x.cat_priority < y.cat_priority
    \/ x.cat_priority = y.cat_priority /\ x.rank_val < y.rank_val

\* list.sort is stable: x, met after every element of s, goes before the first
\* element whose key is strictly greater
RECURSIVE InsertStable(_, _)
InsertStable(s, x) ==
    IF s = <<>> THEN <<x>>
    ELSE IF KeyLess(x, Head(s)) THEN <<x>> \o s
    ELSE <<Head(s)>> \o InsertStable(Tail(s), x)

RECURSIVE SortFrom(_, _)
SortFrom(acc, rest) ==
    IF rest = <<>> THEN acc
    ELSE SortFrom(InsertStable(acc, Head(rest)), Tail(rest))

\* line 121
SortStudentCourses(s) == SortFrom(<<>>, s)

\* lines 84-121: student_courses of one row after the sort
StudentCourses(row, cm, ct) == SortStudentCourses(Collect(row, TypeCols(cm, ct)))

\* mutant of GlobalRank: the 0-based index itself
GlobalRankZeroBased(i) == i

\* line 125: i is enumerate's 0-based index
GlobalRank(i) == i + 1

\* mutant of DictAppend: course_rank_lists[course] = [rank]
DictAppendOverwrite(crl, course, rank) ==
    IF \E j \in 1..Len(crl) : crl[j].course = course
    THEN [j \in 1..Len(crl) |->
             IF crl[j].course = course
             THEN [crl[j] EXCEPT !.ranks = <<rank>>]
             ELSE crl[j]]
    ELSE Append(crl, [course |-> course, ranks |-> <<rank>>])

\* lines 128-131: course_rank_lists[course].append(rank), the key created when new
DictAppend(crl, course, rank) ==
    IF \E j \in 1..Len(crl) : crl[j].course = course
    THEN [j \in 1..Len(crl) |->
             IF crl[j].course = course
             THEN [crl[j] EXCEPT !.ranks = Append(@, rank)]
             ELSE crl[j]]
    ELSE Append(crl, [course |-> course, ranks |-> <<rank>>])

\* lines 124-131, from 0-based position i on
RECURSIVE AssignRanks(_, _, _)
AssignRanks(crl, sc, i) ==
    IF i >= Len(sc) THEN crl
    ELSE AssignRanks(DictAppend(crl, sc[i + 1].course, GlobalRank(i)), sc, i + 1)

\* lines 82-131: the accumulator after the rows, in the order given
RECURSIVE RankLists(_, _, _, _)
RankLists(crl, rows, cm, ct) ==
    IF rows = <<>> THEN crl
    ELSE RankLists(AssignRanks(crl, StudentCourses(Head(rows), cm, ct), 0),
                   Tail(rows), cm, ct)

RECURSIVE Sum(_)
Sum(ranks) == IF ranks = <<>> THEN 0 ELSE Head(ranks) + Sum(Tail(ranks))

RECURSIVE Gcd(_, _)
Gcd(a, b) == IF b = 0 THEN a ELSE Gcd(b, a % b)

\* the value of n / d, as the fraction in lowest terms
Quotient(n, d) == [num |-> n \div Gcd(n, d), den |-> d \div Gcd(n, d)]

\* mutant of AvgRank: floor division, sum(ranks) // len(ranks)
AvgRankFloorDiv(ranks) == Quotient(Sum(ranks) \div Len(ranks), 1)

\* line 136
AvgRank(ranks) == Quotient(Sum(ranks), Len(ranks))

\* lines 134-141: one result per key of the accumulator, in its order
Results(crl) ==
    [j \in 1..Len(crl) |->
        [Course |-> crl[j].course,
         AverageRank |-> AvgRank(crl[j].ranks),
         Count |-> Len(crl[j].ranks)]]

AvgLeq(a, b) == a.num * b.den <= b.num * a.den

Orderings(n) ==
    {f \in [1..n -> 1..n] : \A a, b \in 1..n : f[a] = f[b] => a = b}

\* line 145: sort_values("Average Rank") with pandas' default kind="quicksort",
\* which promises an ascending order and nothing about rows with equal keys:
\* every ascending arrangement is an outcome
SortValues(results) ==
    {[j \in 1..Len(results) |-> results[f[j]]] : f \in
        {g \in Orderings(Len(results)) :
            \A a, b \in 1..Len(results) :
                a < b => AvgLeq(results[g[a]].AverageRank, results[g[b]].AverageRank)}}

\* lines 69-147: the tables a call can return
ProcessRankings(table, cm, ct) ==
    LET results == Results(RankLists(<<>>, table, cm, ct))
    IN  IF results = <<>> THEN {<<>>} ELSE SortValues(results)

(* ------------------- process_rankings as a state machine -------------- *)

Cells == {<<>>} \cup {<<v>> : v \in 1..MaxRankVal}
Rows == [1..NumCols -> Cells]
Tables == UNION {[1..n -> Rows] : n \in 0..MaxRows}

\* course names are introduced in the order A, B, C
CourseNaming ==
    {f \in [1..NumCols -> Courses] :
        /\ f[1] = <<"A">>
        /\ \A j \in 1..NumCols : f[j] = <<"C">> => \E i \in 1..(j - 1) : f[i] = <<"B">>}

\* the columns are of the requested type, but for the last one, which is of
\* either type
TypeNaming(ct) ==
    {f \in [1..NumCols -> CourseTypes] : \A j \in 1..(NumCols - 1) : f[j] = ct}

\* metadata maps over the categories cats for a call with course type ct; the
\* key of an entry is the position of its column
ColMaps(cats, ct) ==
    {[j \in 1..NumCols |->
        [col |-> j, type |-> t[j], category |-> c[j], course |-> n[j]]] :
        t \in TypeNaming(ct), c \in [1..NumCols -> cats], n \in CourseNaming}

\* line 69-80: a call process_rankings(table, cm, ct)
Call(table, cm, ct) ==
    /\ pc = "rows"
    /\ df = table
    /\ col_map = cm
    /\ course_type = ct
    /\ idx = 0
    /\ student_courses = <<>>
    /\ course_rank_lists = <<>>
    /\ results_df = <<>>
    /\ columns = <<>>
    /\ ci = 0
    /\ printed = <<>>
    /\ core_df = <<>>
    /\ elective_df = <<>>
    /\ files = {}

\* the calls whose metadata parse_columns can have produced
InitRankings ==
    \E ct \in CourseTypes :
        \E cm \in ColMaps(Range(all_categories), ct) :
            \E table \in Tables : Call(table, cm, ct)

\* the calls of process_rankings with any metadata, on one respondent at most
InitAnyCategory ==
    \E ct \in CourseTypes :
        \E cm \in ColMaps(Range(all_categories) \cup {OtherCategory}, ct) :
            \E table \in {t \in Tables : Len(t) <= 1} : Call(table, cm, ct)

\* lines 82-131: one iteration of the loop over the rows
ProcessRow ==
    /\ pc = "rows"
    /\ idx < Len(df)
    /\ student_courses' = StudentCourses(df[idx + 1], col_map, course_type)
    /\ course_rank_lists' = AssignRanks(course_rank_lists, student_courses', 0)
    /\ idx' = idx + 1
    /\ UNCHANGED <<pc, columns, df, col_map, course_type, ci, results_df,
                   printed, core_df, elective_df, files>>

\* lines 133-147 when no course was ranked: the empty table is returned unsorted
ReturnEmpty ==
    /\ pc = "rows"
    /\ idx = Len(df)
    /\ Results(course_rank_lists) = <<>>
    /\ results_df' = <<>>
    /\ pc' = "returned"
    /\ UNCHANGED <<columns, df, col_map, course_type, ci, idx, student_courses,
                   course_rank_lists, printed, core_df, elective_df, files>>

\* lines 133-147: the statistics, then sort_values
ReturnSorted ==
    /\ pc = "rows"
    /\ idx = Len(df)
    /\ Results(course_rank_lists) # <<>>
    /\ results_df' \in SortValues(Results(course_rank_lists))
    /\ pc' = "returned"
    /\ UNCHANGED <<columns, df, col_map, course_type, ci, idx, student_courses,
                   course_rank_lists, printed, core_df, elective_df, files>>

NextRankings == ProcessRow \/ ReturnEmpty \/ ReturnSorted

Spec == InitRankings /\ [][NextRankings]_vars

SpecAnyCategory == InitAnyCategory /\ [][NextRankings]_vars

(* ------------------- properties of process_rankings ------------------- *)

\* the entries of col_map that give a rating in row: of the requested type,
\* the cell not empty, the category not "Did not take"
RatedCols(row) ==
    {j \in 1..Len(col_map) :
        /\ col_map[j].type = course_type
        /\ row[col_map[j].col] # <<>>
        /\ col_map[j].category # "Did not take"}

\* the ranks accumulated for course c in accumulator crl
RanksOf(crl, c) ==
    IF \E j \in 1..Len(crl) : crl[j].course = c
    THEN crl[CHOOSE j \in 1..Len(crl) : crl[j].course = c].ranks
    ELSE <<>>

CoursesOf(cm) == {cm[j].course : j \in 1..Len(cm)}

\* the ranks the step from the unprimed to the primed state appended for c
NewRanks(c) ==
    SubSeq(RanksOf(course_rank_lists', c),
           Len(RanksOf(course_rank_lists, c)) + 1,
           Len(RanksOf(course_rank_lists', c)))

\* C1: processing a respondent row appends, over all courses, exactly the
\* global ranks 1..k, each once, where k is the number of columns of the
\* requested type whose cell is not empty and whose category is not "Did not
\* take"; a course gets as many ranks as it has such columns, so an empty cell
\* or a "Did not take" column gets none, and the ranks of earlier rows stay.
C1_GlobalRanksArePermutation ==
    [][ProcessRow =>
        LET row == df[idx + 1]
            k == Cardinality(RatedCols(row))
        IN  /\ UNION {Range(NewRanks(c)) : c \in CoursesOf(col_map)} = 1..k
            /\ \A c \in CoursesOf(col_map) :
                  /\ Len(NewRanks(c)) =
                        Cardinality({j \in RatedCols(row) : col_map[j].course = c})
                  /\ SubSeq(RanksOf(course_rank_lists', c), 1,
                            Len(RanksOf(course_rank_lists, c)))
                        = RanksOf(course_rank_lists, c)
            /\ \A j \in 1..Len(course_rank_lists') :
                  course_rank_lists'[j].course \in CoursesOf(col_map)
    ]_vars

\* C1 witness: the second row was processed; it has two ratings, and a
\* non-empty cell in a "Did not take" column of the requested type
C1_Witness ==
    /\ idx = 2
    /\ Cardinality(RatedCols(df[2])) = 2
    /\ \E j \in 1..Len(col_map) :
          /\ col_map[j].type = course_type
          /\ col_map[j].category = "Did not take"
          /\ df[2][col_map[j].col] # <<>>
    /\ \E c \in CoursesOf(col_map) : Len(RanksOf(course_rank_lists, c)) = 2

\* the priority the specification gives a category
SpecPriority(cat) ==
    CASE cat = "Most Beneficial" -> 1
      [] cat = "Neutral" -> 2
      [] cat = "Least Beneficial" -> 3

\* the rating that entry j of col_map gives in row
RatingOf(row, j) ==
    [course |-> col_map[j].course,
     cat_priority |-> SpecPriority(col_map[j].category),
     rank_val |-> row[col_map[j].col][1]]

\* rating a is better than rating b: a lower category priority, or the same
\* priority and a smaller in-category rank value
Better(a, b) ==
    \/ a.cat_priority < b.cat_priority
    \/ a.cat_priority = b.cat_priority /\ a.rank_val < b.rank_val

Last(s) == s[Len(s)]

\* C2: for the row last processed and any two of its ratings a and b, a better
\* than b: every position of a in the sorted list is before every position of
\* b, so a's global rank is strictly lower; and when the row rates each course
\* once, the rank accumulated for a's course is strictly lower than the one
\* accumulated for b's.
C2_CategoryThenRankOrder ==
    (pc = "rows" /\ idx > 0) =>
        LET row == df[idx]
            Pos(j) == {p \in 1..Len(student_courses) :
                          student_courses[p] = RatingOf(row, j)}
            once == \A a, b \in RatedCols(row) :
                        col_map[a].course = col_map[b].course => a = b
        IN  /\ Len(student_courses) = Cardinality(RatedCols(row))
            /\ \A a \in RatedCols(row) : Pos(a) # {}
            /\ \A a, b \in RatedCols(row) :
                  Better(RatingOf(row, a), RatingOf(row, b)) =>
                      /\ \A p \in Pos(a), q \in Pos(b) :
                            GlobalRank(p - 1) < GlobalRank(q - 1)
                      /\ once =>
                            Last(RanksOf(course_rank_lists, col_map[a].course))
                              < Last(RanksOf(course_rank_lists, col_map[b].course))

\* C2 witness: the specification's example, A = Most Beneficial/2,
\* B = Most Beneficial/1, C = Neutral/1, ranked B = 1, A = 2, C = 3
C2_Witness ==
    /\ pc = "rows"
    /\ idx = 1
    /\ student_courses =
          <<[course |-> <<"B">>, cat_priority |-> 1, rank_val |-> 1],
            [course |-> <<"A">>, cat_priority |-> 1, rank_val |-> 2],
            [course |-> <<"C">>, cat_priority |-> 2, rank_val |-> 1]>>
    /\ RanksOf(course_rank_lists, <<"B">>) = <<1>>
    /\ RanksOf(course_rank_lists, <<"A">>) = <<2>>
    /\ RanksOf(course_rank_lists, <<"C">>) = <<3>>

\* the respondents who gave course c a rating
Raters(c) ==
    {r \in 1..Len(df) : \E j \in RatedCols(df[r]) : col_map[j].course = c}

\* the courses some respondent of the table gave a rating
RankedCourses ==
    {c \in CoursesOf(col_map) :
        \E r \in 1..Len(df) : \E j \in RatedCols(df[r]) : col_map[j].course = c}

\* C3: the returned table has exactly one row for every course that some
\* respondent rated and no other row, and the row's Average Rank is the sum of
\* the ranks accumulated for the course divided by their number; with a single
\* accumulated rank it is that rank.
C3_OneRowPerCourseWithMean ==
    pc = "returned" =>
        /\ {results_df[i].Course : i \in 1..Len(results_df)} = RankedCourses
        /\ \A i, j \in 1..Len(results_df) :
              results_df[i].Course = results_df[j].Course => i = j
        /\ \A i \in 1..Len(results_df) :
              LET ranks == RanksOf(course_rank_lists, results_df[i].Course)
                  avg == results_df[i].AverageRank
              IN  /\ avg.den > 0
                  /\ avg.num * Len(ranks) = Sum(ranks) * avg.den
                  /\ Len(ranks) = 1 => avg = [num |-> ranks[1], den |-> 1]

\* C3 witness: a returned table with a course of average 3/2 over two
\* respondents and a course rated once, by the respondent who ranked it 3rd
C3_Witness ==
    /\ pc = "returned"
    /\ \E i, j \in 1..Len(results_df) :
          /\ results_df[i].AverageRank = [num |-> 3, den |-> 2]
          /\ Cardinality(Raters(results_df[i].Course)) = 2
          /\ results_df[j].AverageRank = [num |-> 3, den |-> 1]
          /\ RanksOf(course_rank_lists, results_df[j].Course) = <<3>>
    /\ Len(df) = 2

\* C4: the Count of every result row is the number of distinct respondents
\* who rated the course.
C4_CountIsDistinctRespondents ==
    pc = "returned" =>
        \A i \in 1..Len(results_df) :
            results_df[i].Count = Cardinality(Raters(results_df[i].Course))

\* the table with its rows in the order f
Reordered(table, f) == [r \in 1..Len(table) |-> table[f[r]]]

\* C5: whatever the order of the respondent rows, every table a call can
\* return holds the same (Course, Average Rank, Count) triples as the one
\* returned.
C5_RowOrderIndependent ==
    pc = "returned" =>
        \A f \in Orderings(Len(df)) :
            \A t \in ProcessRankings(Reordered(df, f), col_map, course_type) :
                Range(t) = Range(results_df)

\* C5 witness: two different respondents whose order decides the order of the
\* accumulator's keys, and a returned table of at least two courses
C5_Witness ==
    /\ pc = "returned"
    /\ Len(df) = 2
    /\ Len(results_df) >= 2
    /\ \E i \in 1..Len(results_df) : results_df[i].Count = 2
    /\ Results(RankLists(<<>>, <<df[2], df[1]>>, col_map, course_type))
          # Results(course_rank_lists)

\* the place of course c among the keys of the accumulator
KeyIndex(c) == CHOOSE j \in 1..Len(course_rank_lists) : course_rank_lists[j].course = c

\* C6: the returned table is ascending in Average Rank, and courses of equal
\* Average Rank are in the order in which the accumulator first saw them.
C6_AscendingAndStable ==
    pc = "returned" =>
        \A a, b \in 1..Len(results_df) :
            a < b =>
                /\ AvgLeq(results_df[a].AverageRank, results_df[b].AverageRank)
                /\ results_df[a].AverageRank = results_df[b].AverageRank =>
                      KeyIndex(results_df[a].Course) < KeyIndex(results_df[b].Course)

\* C7: when a processed row has a non-empty cell in a column of the requested
\* type whose category is none of the four recognised ones, the call has
\* aborted: no rating was built for the course from that cell, nothing was
\* accumulated for it, and no table is returned.
C7_UnrecognisedCategoryAborts ==
    \A r \in 1..idx : \A j \in 1..Len(col_map) :
        (/\ col_map[j].type = course_type
         /\ df[r][col_map[j].col] # <<>>
         /\ col_map[j].category \notin Range(all_categories))
        => /\ pc # "returned"
           /\ \A p \in 1..Len(student_courses) :
                 student_courses[p].cat_priority \in {1, 2, 3}
           /\ \A c \in CoursesOf(col_map) :
                 Len(RanksOf(course_rank_lists, c))
                    <= Cardinality({q \in 1..Len(col_map) :
                          /\ col_map[q].course = c
                          /\ col_map[q].category \in Range(rank_categories)})

(* -------------------- parse_columns as a state machine ---------------- *)

\* text that is none of the markers
OtherText == "Comments"

HeaderStarts == {<<CoreMarker>>, <<ElectiveMarker>>, <<OtherText>>}
HeaderNames == {<<>>, <<"A">>}
\* the trailing marker, its last token alone (which completes a trailing
\* marker only after a " - "), or nothing
HeaderEnds == {suffix, <<"Rank">>, <<>>}

\* " - Ranks - <category> - <name>", the category any of the four or another
Segments ==
    {CatPrefix(cat) \o name :
        cat \in Range(all_categories) \cup {OtherCategory}, name \in HeaderNames}

RECURSIVE Flatten(_)
Flatten(ss) == IF ss = <<>> THEN <<>> ELSE Head(ss) \o Flatten(Tail(ss))

Bodies == {Flatten(ss) : ss \in UNION {[1..n -> Segments] : n \in 0..MaxSegs}}

Headers == {start \o body \o end :
               start \in HeaderStarts, body \in Bodies, end \in HeaderEnds}

\* f"... - Ranks - {cat} - {name} - Rank"
WellFormed(marker, cat, name) == <<marker>> \o CatPrefix(cat) \o name \o suffix

Companions ==
    {WellFormed(CoreMarker, "Most Beneficial", <<"B">>),
     WellFormed(ElectiveMarker, "Neutral", <<"C">>)}

\* the header lists: one header, alone or beside a well-formed one (the
\* headers of a table are distinct)
HeaderLists ==
    {<<h>> : h \in Headers}
      \cup {<<h, g>> : h \in Headers, g \in Companions}
      \cup {<<g, h>> : h \in Headers, g \in Companions}

\* lines 10-18: a call parse_columns(cols)
InitParse ==
    /\ pc = "columns"
    /\ columns \in HeaderLists
    /\ ci = 0
    /\ col_map = <<>>
    /\ printed = <<>>
    /\ df = <<>>
    /\ course_type = ""
    /\ idx = 0
    /\ student_courses = <<>>
    /\ course_rank_lists = <<>>
    /\ results_df = <<>>
    /\ core_df = <<>>
    /\ elective_df = <<>>
    /\ files = {}

\* lines 22-27: neither type marker
SkipNoType ==
    /\ pc = "columns"
    /\ ci < Len(columns)
    /\ Outcome(columns[ci + 1]) = "no_type"
    /\ ci' = ci + 1
    /\ UNCHANGED <<pc, columns, df, col_map, course_type, idx, student_courses,
                   course_rank_lists, results_df, printed, core_df, elective_df,
                   files>>

\* lines 29-30
SkipNoRanks ==
    /\ pc = "columns"
    /\ ci < Len(columns)
    /\ Outcome(columns[ci + 1]) = "no_ranks"
    /\ ci' = ci + 1
    /\ UNCHANGED <<pc, columns, df, col_map, course_type, idx, student_courses,
                   course_rank_lists, results_df, printed, core_df, elective_df,
                   files>>

\* lines 32-33, and lines 56-57, which no header reaches: find and rfind have
\* found their patterns at lines 40 and 32
SkipNoSuffix ==
    /\ pc = "columns"
    /\ ci < Len(columns)
    /\ Outcome(columns[ci + 1]) \in {"no_suffix", "bad_index"}
    /\ ci' = ci + 1
    /\ UNCHANGED <<pc, columns, df, col_map, course_type, idx, student_courses,
                   course_rank_lists, results_df, printed, core_df, elective_df,
                   files>>

\* lines 44-46
WarnNoCategory ==
    /\ pc = "columns"
    /\ ci < Len(columns)
    /\ Outcome(columns[ci + 1]) = "no_category"
    /\ printed' = Append(printed, Warning(ci + 1))
    /\ ci' = ci + 1
    /\ UNCHANGED <<pc, columns, df, col_map, course_type, idx, student_courses,
                   course_rank_lists, results_df, core_df, elective_df, files>>

\* lines 48-65
AddEntry ==
    /\ pc = "columns"
    /\ ci < Len(columns)
    /\ Outcome(columns[ci + 1]) = "entry"
    /\ col_map' = Append(col_map, Entry(ci + 1, columns[ci + 1]))
    /\ ci' = ci + 1
    /\ UNCHANGED <<pc, columns, df, course_type, idx, student_courses,
                   course_rank_lists, results_df, printed, core_df, elective_df,
                   files>>

\* line 67
ReturnColMap ==
    /\ pc = "columns"
    /\ ci = Len(columns)
    /\ pc' = "parsed"
    /\ UNCHANGED <<columns, df, col_map, course_type, ci, idx, student_courses,
                   course_rank_lists, results_df, printed, core_df, elective_df,
                   files>>

NextParse ==
    \/ SkipNoType
    \/ SkipNoRanks
    \/ SkipNoSuffix
    \/ WarnNoCategory
    \/ AddEntry
    \/ ReturnColMap

SpecParse == InitParse /\ [][NextParse]_vars

\* lines 10-67: the map and the printed lines of a whole call, from column c on
RECURSIVE ParseFrom(_, _, _)
ParseFrom(acc, cols, c) ==
    IF c > Len(cols) THEN acc
    ELSE ParseFrom(
            IF Outcome(cols[c]) = "entry"
            THEN [acc EXCEPT !.col_map = Append(@, Entry(c, cols[c]))]
            ELSE IF Outcome(cols[c]) = "no_category"
            THEN [acc EXCEPT !.printed = Append(@, Warning(c))]
            ELSE acc,
            cols, c + 1)

ParseColumns(cols) == ParseFrom([col_map |-> <<>>, printed |-> <<>>], cols, 1)

(* ----------------------- properties of parse_columns ------------------ *)

HasEntry(c) == \E j \in 1..Len(col_map) : col_map[j].col = c
EntryOf(c) == col_map[CHOOSE j \in 1..Len(col_map) : col_map[j].col = c]
Warned(c) == \E j \in 1..Len(printed) : printed[j] = Warning(c)

\* the occurrences <<category, place>> of a delimited category segment
CategorySegments(col) ==
    {<<cat, i>> : cat \in Range(all_categories), i \in 1..Len(col)}
      \cap {x \in Range(all_categories) \X (1..Len(col)) :
               x[2] \in Occurrences(col, CatPrefix(x[1]))}

\* the occurrences of " - Rank" that are not the start of " - Ranks"
RankFieldMarkers(col) ==
    {i \in Occurrences(col, suffix) : i + 2 > Len(col) \/ col[i + 2] # "s"}

\* the header reaches the category extraction of lines 35-65
ReachesExtraction(col) ==
    /\ Contains(col, <<CoreMarker>>) \/ Contains(col, <<ElectiveMarker>>)
    /\ Contains(col, RanksMarker)
    /\ EndsWith(col, suffix)

\* zero or several category segments or rank-field markers, or the one segment
\* running into the trailing marker
Ambiguous(col) ==
    \/ Cardinality(CategorySegments(col)) # 1
    \/ Cardinality(RankFieldMarkers(col)) # 1
    \/ \E x \in CategorySegments(col) :
          x[2] + Len(CatPrefix(x[1])) - 1 >= Len(col) - Len(suffix) + 1

\* C8: of the headers that reach the category extraction, an ambiguous one
\* has no entry and a diagnostic, and an accepted one has as course name the
\* text strictly between its single category segment and the trailing marker.
C8_NoGuessOnAmbiguousHeader ==
    \A c \in 1..ci :
        LET col == columns[c]
        IN  ReachesExtraction(col) =>
              /\ Ambiguous(col) => ~HasEntry(c) /\ Warned(c)
              /\ HasEntry(c) =>
                    \E x \in CategorySegments(col) :
                        /\ EntryOf(c).category = x[1]
                        /\ EntryOf(c).course =
                              SubSeq(col, x[2] + Len(CatPrefix(x[1])),
                                     Len(col) - Len(suffix))

\* the header fails one of the structural checks
FailsCheck(col) ==
    \/ ~Contains(col, <<CoreMarker>>) /\ ~Contains(col, <<ElectiveMarker>>)
    \/ ~Contains(col, RanksMarker)
    \/ ~EndsWith(col, suffix)
    \/ CategorySegments(col) = {}

\* the entry of column c is the one its header gets when parsed alone, and
\* there is none when the header alone gets none
Unaffected(c) ==
    LET alone == ParseColumns(<<columns[c]>>).col_map
    IN  /\ HasEntry(c) <=> alone # <<>>
        /\ HasEntry(c) => EntryOf(c) = [alone[1] EXCEPT !.col = c]

data_path == "data/data.xlsx"
CoreTitle == "MAcc CORE Course Rankings"
ElectiveTitle == "MAcc ELECTIVE Course Rankings"
CorePlot == "outputs/core_rank_order.png"
ElectivePlot == "outputs/elective_rank_order.png"
CoreCsv == "outputs/core_rankings.csv"
ElectiveCsv == "outputs/elective_rankings.csv"

\* line 151
NoData(title) == [msg |-> "No data for", col |-> 0, title |-> title]
\* line 177
Saved(path) == [msg |-> "Saved plot to", col |-> 0, title |-> path]

\* the headers a data file is drawn from
MainHeaders ==
    <<WellFormed(CoreMarker, "Most Beneficial", <<"A">>),
      WellFormed(CoreMarker, "Did not take", <<"A">>),
      WellFormed(ElectiveMarker, "Neutral", <<"B">>),
      WellFormed(ElectiveMarker, "Most Beneficial", <<"C">>),
      <<OtherText>>>>

\* the header rows of a data file: NumCols of the headers, in their order
MainHeaderLists ==
    {[j \in 1..NumCols |-> MainHeaders[f[j]]] : f \in
        {g \in [1..NumCols -> 1..Len(MainHeaders)] :
            \A a, b \in 1..NumCols : a < b => g[a] < g[b]}}

\* line 180: main is entered
InitMain ==
    /\ pc = "main"
    /\ columns = <<>>
    /\ df = <<>>
    /\ col_map = <<>>
    /\ course_type = ""
    /\ ci = 0
    /\ idx = 0
    /\ student_courses = <<>>
    /\ course_rank_lists = <<>>
    /\ results_df = <<>>
    /\ printed = <<>>
    /\ core_df = <<>>
    /\ elective_df = <<>>
    /\ files = {}

\* lines 182-184: the data file does not exist
PathMissing ==
    /\ pc = "main"
    /\ printed' = Append(printed, Line("Error: data/data.xlsx not found."))
    /\ pc' = "exit"
    /\ UNCHANGED <<columns, df, col_map, course_type, ci, idx, student_courses,
                   course_rank_lists, results_df, core_df, elective_df, files>>

\* lines 182-186: the data file exists
PathExists ==
    /\ pc = "main"
    /\ printed' = Append(printed, Line("Reading data/data.xlsx..."))
    /\ pc' = "read"
    /\ UNCHANGED <<columns, df, col_map, course_type, ci, idx, student_courses,
                   course_rank_lists, results_df, core_df, elective_df, files>>

\* lines 187-191: read_excel raises
ReadFails ==
    /\ pc = "read"
    /\ printed' = Append(printed, Line("Error reading file"))
    /\ pc' = "exit"
    /\ UNCHANGED <<columns, df, col_map, course_type, ci, idx, student_courses,
                   course_rank_lists, results_df, core_df, elective_df, files>>

\* line 188: read_excel returns the table of the file
ReadExcel ==
    /\ pc = "read"
    /\ columns' \in MainHeaderLists
    /\ df' \in Tables
    /\ pc' = "parse"
    /\ UNCHANGED <<col_map, course_type, ci, idx, student_courses,
                   course_rank_lists, results_df, printed, core_df, elective_df,
                   files>>

\* lines 193-194
CallParseColumns ==
    /\ pc = "parse"
    /\ col_map' = ParseColumns(columns).col_map
    /\ printed' = Append(printed, Line("Parsing columns..."))
                     \o ParseColumns(columns).printed
    /\ pc' = "core"
    /\ UNCHANGED <<columns, df, course_type, ci, idx, student_courses,
                   course_rank_lists, results_df, core_df, elective_df, files>>

\* lines 197-199
ProcessCore ==
    /\ pc = "core"
    /\ core_df' \in ProcessRankings(df, col_map, "CORE")
    /\ printed' = Append(printed, Line("Processing CORE courses..."))
    /\ pc' = "plot_core"
    /\ UNCHANGED <<columns, df, col_map, course_type, ci, idx, student_courses,
                   course_rank_lists, results_df, elective_df, files>>

\* mutant of CreatePlot: no check of df.empty, the plot of an empty table raises
CreatePlotNoGuard(table, title, path, next) ==
    /\ \/ /\ table = <<>>
          /\ printed' = printed
          /\ files' = files
          /\ pc' = "raised"
       \/ /\ table # <<>>
          /\ files' = files \cup {path}
          /\ printed' = Append(printed, Saved(path))
          /\ pc' = next
    /\ UNCHANGED <<columns, df, col_map, course_type, ci, idx, student_courses,
                   course_rank_lists, results_df, core_df, elective_df>>

\* lines 149-178: create_plot(table, title, filename), the caller going on at next
CreatePlot(table, title, path, next) ==
    /\ \/ /\ table = <<>>
          /\ printed' = Append(printed, NoData(title))
          /\ files' = files
       \/ /\ table # <<>>
          /\ files' = files \cup {path}
          /\ printed' = Append(printed, Saved(path))
    /\ pc' = next
    /\ UNCHANGED <<columns, df, col_map, course_type, ci, idx, student_courses,
                   course_rank_lists, results_df, core_df, elective_df>>

\* line 200
PlotCore ==
    /\ pc = "plot_core"
    /\ CreatePlot(core_df, CoreTitle, CorePlot, "elective")

\* lines 203-205
ProcessElective ==
    /\ pc = "elective"
    /\ elective_df' \in ProcessRankings(df, col_map, "ELECTIVE")
    /\ printed' = Append(printed, Line("Processing ELECTIVE courses..."))
    /\ pc' = "plot_elective"
    /\ UNCHANGED <<columns, df, col_map, course_type, ci, idx, student_courses,
                   course_rank_lists, results_df, core_df, files>>

\* line 206
PlotElective ==
    /\ pc = "plot_elective"
    /\ CreatePlot(elective_df, ElectiveTitle, ElectivePlot, "csv")

\* lines 209-210
SaveCsv ==
    /\ pc = "csv"
    /\ files' = files \cup {CoreCsv, ElectiveCsv}
    /\ pc' = "done"
    /\ UNCHANGED <<columns, df, col_map, course_type, ci, idx, student_courses,
                   course_rank_lists, results_df, printed, core_df, elective_df>>

NextMain ==
    \/ PathMissing
    \/ PathExists
    \/ ReadFails
    \/ ReadExcel
    \/ CallParseColumns
    \/ ProcessCore
    \/ PlotCore
    \/ ProcessElective
    \/ PlotElective
    \/ SaveCsv

\* the statement at program point from completes, control going to one of tos
Completes(from, tos) == pc = from /\ pc' \in tos

\* main is one sequential run of calls that return: control does not stay at
\* a statement for ever
SpecMain ==
    /\ InitMain
    /\ [][NextMain]_vars
    /\ WF_pc(Completes("main", {"read", "exit"}))
    /\ WF_pc(Completes("read", {"parse", "exit"}))
    /\ WF_pc(Completes("parse", {"core"}))
    /\ WF_pc(Completes("core", {"plot_core"}))
    /\ WF_pc(Completes("plot_core", {"elective"}))
    /\ WF_pc(Completes("elective", {"plot_elective"}))
    /\ WF_pc(Completes("plot_elective", {"csv"}))
    /\ WF_pc(Completes("csv", {"done"}))

(* --------------------------- properties of main ----------------------- *)

Printed(line) == \E j \in 1..Len(printed) : printed[j] = line

\* C10: a course type with no entry in the map gets an empty table; once
\* CORE's table is empty, create_plot writes no CORE chart and prints the
\* diagnostic, and the run goes on: it reaches the end, with both result files
\* written and with the ELECTIVE chart written whenever ELECTIVE's table is not
\* empty.
C10_EmptyCoreDoesNotStopRun ==
    /\ [](pc = "plot_core" /\ TypeCols(col_map, "CORE") = <<>> => core_df = <<>>)
    /\ [](pc = "plot_elective" /\ TypeCols(col_map, "ELECTIVE") = <<>>
            => elective_df = <<>>)
    /\ []((pc \in {"elective", "plot_elective", "csv", "done"} /\ core_df = <<>>)
            => CorePlot \notin files /\ Printed(NoData(CoreTitle)))
    /\ []((pc = "done" /\ core_df = <<>>)
            => /\ {CoreCsv, ElectiveCsv} \subseteq files
               /\ elective_df # <<>> => ElectivePlot \in files)
    /\ ((pc = "plot_core" /\ core_df = <<>>) ~> pc = "done")

\* C10 witness: the end of a run whose file has no CORE header: CORE's table is
\* empty and has no chart, ELECTIVE's is not and has one
C10_Witness ==
    /\ pc = "done"
    /\ TypeCols(col_map, "CORE") = <<>>
    /\ core_df = <<>>
    /\ CorePlot \notin files
    /\ elective_df # <<>>
    /\ files = {ElectivePlot, CoreCsv, ElectiveCsv}

====
